---------------------------- MODULE Spec2Model ----------------------------
(***************************************************************************)
(* The poll(2) echo server of ex2/echo.c: the per-connection circular      *)
(* buffer (client_put / client_get / client_consume), the connection state *)
(* machine (handle_client), closeconn / newconn, and the dispatcher loop   *)
(* of main with its accept throttle.                                       *)
(*                                                                         *)
(* Pointers into client->buf are modelled as integer offsets from          *)
(* client->buf.  An offset outside 0..BUFLEN-1 is a pointer outside the    *)
(* array: it is kept as the integer the pointer arithmetic produces, and   *)
(* a read through it yields an arbitrary byte or a fault.                  *)
(***************************************************************************)
EXTENDS Integers, Sequences, FiniteSets, TLC

(***************************************************************************)
(* Sizes.  The program uses MAX_CONNECTIONS = 256 and BUFLEN = 4096; the   *)
(* model keeps the code and scales the two tables down.                    *)
(***************************************************************************)
MAX_CONNECTIONS == 3
BUFLEN == 3
\* A run is bounded by how many peers connect in it and how many bytes they
\* send (also the most one connection's channel takes); beyond that the
\* listening socket is quiet and a channel only reports end-of-stream,
\* retry-needed, errors or hangup.  Two kinds of run are explored: a single
\* peer that sends much, and many peers that come and go and send at most
\* FewBytes between them.
ManyBytes == 4
ManyPeers == 4
FewBytes == 0
\* most connection slots one poll call reports ready (poll returns as soon
\* as one descriptor is ready)
MaxReady == 1
\* SpecBuf: most calls of the buffer functions in a run
MaxCalls == 6

STATE_READING == 0
STATE_WRITING == 1

\* results of tls_read / tls_write / tls_close (tls.h)
TLS_WANT_POLLIN == -2
TLS_WANT_POLLOUT == -3
TLS_ERROR == -1

\* the descriptor of the listening socket (0..2 are the standard streams)
ListenFd == 3

\* Byte values.  The code never inspects a byte it moves, so the k-th byte the
\* peers send in a run is given the value k: any byte duplicated, dropped,
\* reordered or invented shows in what comes back.  0 is the content of
\* static storage before first use.
Byte == 0..(IF ManyBytes > FewBytes THEN ManyBytes ELSE FewBytes)
Slots == 0..(MAX_CONNECTIONS - 1)
Conns == 1..(MAX_CONNECTIONS - 1)
BufIdx == 0..(BUFLEN - 1)

\* the value of a struct tls * held by a client
CTX_NULL == "null"
CTX_LIVE == "live"
CTX_FREED == "freed"

POLLIN_POLLHUP == {"POLLIN", "POLLHUP"}
POLLOUT_POLLHUP == {"POLLOUT", "POLLHUP"}

VARIABLES
    pc,         \* position of main: "poll", "accept", "scan", "exited"
                \* ("buf" in SpecBuf, which calls the buffer functions only)
    i,          \* the loop variable of the per-slot scan
    throttle,   \* static int throttle
    pollfds,    \* static struct pollfd pollfds[MAX_CONNECTIONS]
    clients,    \* static struct client clients[MAX_CONNECTIONS] (1..)
    fds,        \* descriptors open in the process
    exitcode,   \* why the process exited ("" while it runs)
    rd,         \* per slot: bytes tls_read delivered on the connection
    wr,         \* per slot: bytes tls_write confirmed on the connection
    ev,         \* the last operation performed and its result
    nread,      \* bytes the peers have sent so far
    npeers,     \* peers that have connected so far
    budget,     \* the bounds of this run: [peers, bytes]
    admitted,   \* the slot the accept block filled in this iteration, or 0
    offer,      \* per slot: the bytes of a tls_write that must be retried
    hist        \* SpecBuf: the calls of the buffer functions so far

vars == <<pc, i, throttle, pollfds, clients, fds, exitcode, rd, wr, ev,
          nread, npeers, budget, admitted, offer, hist>>

Min(a, b) == IF a < b THEN a ELSE b

(***************************************************************************)
(* struct client and the three buffer functions.                           *)
(***************************************************************************)

\* a struct client in static storage before first use (zero-initialised)
client_zero ==
    [state |-> 0, readptr |-> 0, writeptr |-> 0, nextptr |-> 0,
     buf |-> [k \in BufIdx |-> 0], ctx |-> CTX_NULL]

client_init(client, ctx) ==
    [client EXCEPT !.readptr = 0, !.writeptr = 0, !.nextptr = 0,
                   !.state = STATE_READING, !.ctx = ctx]

\* the while loop of client_consume: readptr++ until it meets nextptr
RECURSIVE consume_loop(_, _, _)
consume_loop(client, n, len) ==
    IF n < len /\ client.readptr # client.nextptr
    THEN consume_loop([client EXCEPT !.readptr = @ + 1], n + 1, len)
    ELSE [client |-> client, n |-> n]

client_consume(client, len) == consume_loop(client, 0, len)

\* the while loop of client_get; oob is what a read through a pointer
\* outside buf yields
RECURSIVE get_loop(_, _, _, _, _)
get_loop(client, nextptr, out, outlen, oob) ==
    IF Len(out) < outlen /\ nextptr # client.writeptr
    THEN LET b == IF nextptr \in BufIdx THEN client.buf[nextptr] ELSE oob
             np == IF nextptr + 1 >= BUFLEN THEN 0 ELSE nextptr + 1
         IN get_loop([client EXCEPT !.nextptr = np], np, Append(out, b),
                     outlen, oob)
    ELSE [client |-> client, out |-> out, n |-> Len(out)]

\* client_get starting at client->nextptr instead of client->readptr
client_get_from_nextptr(client, outlen, oob) ==
    get_loop(client, client.nextptr, <<>>, outlen, oob)

client_get(client, outlen, oob) ==
    get_loop(client, client.readptr, <<>>, outlen, oob)

\* client_get dereferences a pointer outside buf
get_reads_outside(client, outlen) ==
    /\ outlen > 0
    /\ client.readptr # client.writeptr
    /\ client.readptr \notin BufIdx

\* the while loop of client_put
RECURSIVE put_loop(_, _, _, _)
put_loop(client, nextptr, n, inbuf) ==
    IF n < Len(inbuf)
    THEN LET np == IF nextptr + 1 >= BUFLEN THEN 0 ELSE nextptr + 1
         IN IF np = client.readptr
            THEN [client |-> client, n |-> n]
            ELSE put_loop([client EXCEPT !.buf[nextptr] = inbuf[n + 1],
                                         !.writeptr = np],
                          np, n + 1, inbuf)
    ELSE [client |-> client, n |-> n]

client_put(client, inbuf) == put_loop(client, client.writeptr, 0, inbuf)


(***************************************************************************)
(* closeconn, newconn and handle_client.  They work on one slot: s holds   *)
(* the slot's pollfd and client, the throttle, the open descriptors, the   *)
(* exit reason of the process ("" while it runs), io, the channel          *)
(* operation the call performed, and rel, the struct tls * that closeconn  *)
(* handed to tls_close and tls_free ("none" when closeconn did not run).   *)
(***************************************************************************)
no_io == [op |-> "none", res |-> 0, out |-> <<>>]

\* a read through a pointer outside buf that faults instead of yielding a byte
FAULT == ManyBytes + FewBytes + 1

\* closeconn without its last line, throttle = 0
closeconn_keeps_throttle(s) ==
    [s EXCEPT !.rel = s.client.ctx,
              !.client.ctx = CTX_FREED,
              !.fds = @ \ {s.pfd.fd},
              !.pfd.fd = -1,
              !.pfd.revents = {}]

\* closeconn without pfd->fd = -1
closeconn_keeps_fd(s) ==
    [s EXCEPT !.rel = s.client.ctx,
              !.client.ctx = CTX_FREED,
              !.fds = @ \ {s.pfd.fd},
              !.pfd.revents = {},
              !.throttle = 0]

\* tls_close is repeated until it is done, then tls_free, close(fd)
closeconn(s) ==
    [s EXCEPT !.rel = s.client.ctx,
              !.client.ctx = CTX_FREED,
              !.fds = @ \ {s.pfd.fd},
              !.pfd.fd = -1,
              !.pfd.revents = {},
              !.throttle = 0]

newconn(pfd, newfd) ==
    [pfd EXCEPT !.fd = newfd, !.events = POLLIN_POLLHUP, !.revents = {}]

\* STATE_READING branch; len is the result of tls_read, data what it stored
handle_reading(s, len, data) ==
    LET t == [s EXCEPT !.io = [op |-> "tls_read", res |-> len, out |-> data]]
    IN IF len = TLS_WANT_POLLIN THEN [t EXCEPT !.pfd.events = POLLIN_POLLHUP]
       ELSE IF len = TLS_WANT_POLLOUT
            THEN [t EXCEPT !.pfd.events = POLLOUT_POLLHUP]
       ELSE IF len < 0 THEN t
       ELSE IF len = 0 THEN closeconn(t)
       ELSE LET p == client_put(t.client, data)
            IN IF p.n # len
               THEN closeconn([t EXCEPT !.client = p.client])
               ELSE [t EXCEPT !.client = [p.client EXCEPT
                                              !.state = STATE_WRITING],
                              !.pfd.events = POLLOUT_POLLHUP]

\* STATE_WRITING branch; wres is the result of tls_write when it is called
handle_writing(s, wres, oob) ==
    IF get_reads_outside(s.client, BUFLEN) /\ oob = FAULT
    THEN [s EXCEPT !.exit = "fault", !.io.op = "fault"]
    ELSE
    LET g == client_get(s.client, BUFLEN, oob)
        len == g.n
        ret == IF len # 0 THEN wres ELSE 0
        t == [s EXCEPT !.client = g.client,
                       !.io = IF len # 0
                              THEN [op |-> "tls_write", res |-> ret,
                                    out |-> g.out]
                              ELSE [op |-> "peek_empty", res |-> 0,
                                    out |-> <<>>]]
        u == IF len = 0 THEN t
             ELSE IF ret = TLS_WANT_POLLIN
                  THEN [t EXCEPT !.pfd.events = POLLIN_POLLHUP]
             ELSE IF ret = TLS_WANT_POLLOUT
                  THEN [t EXCEPT !.pfd.events = POLLOUT_POLLHUP]
             ELSE IF ret < 0 THEN t
             ELSE [t EXCEPT !.client = client_consume(t.client, ret).client]
    IN IF ret = len
       THEN [u EXCEPT !.client.state = STATE_READING,
                      !.pfd.events = POLLIN_POLLHUP]
       ELSE u

\* handle_client with the POLLHUP test after the test of the requested events
handle_client_io_first(s, tres, data, oob) ==
    IF s.pfd.revents \cap {"POLLERR", "POLLNVAL"} # {}
    THEN [s EXCEPT !.exit = "bad fd", !.io.op = "errx"]
    ELSE IF s.pfd.revents \cap s.pfd.events # {}
         THEN IF s.client.state = STATE_READING
              THEN handle_reading(s, tres, data)
              ELSE IF s.client.state = STATE_WRITING
                   THEN handle_writing(s, tres, oob)
                   ELSE s
    ELSE IF "POLLHUP" \in s.pfd.revents
         THEN closeconn([s EXCEPT !.io.op = "hangup"])
    ELSE s

handle_client(s, tres, data, oob) ==
    IF s.pfd.revents \cap {"POLLERR", "POLLNVAL"} # {}
    THEN [s EXCEPT !.exit = "bad fd", !.io.op = "errx"]
    ELSE IF "POLLHUP" \in s.pfd.revents
         THEN closeconn([s EXCEPT !.io.op = "hangup"])
    ELSE IF s.pfd.revents \cap s.pfd.events # {}
         THEN IF s.client.state = STATE_READING
              THEN handle_reading(s, tres, data)
              ELSE IF s.client.state = STATE_WRITING
                   THEN handle_writing(s, tres, oob)
                   ELSE s
    ELSE s

\* which channel call handle_client is about to make on the slot
calls_tls(pfd, client) ==
    IF pfd.revents \cap {"POLLERR", "POLLNVAL"} # {} THEN "none"
    ELSE IF "POLLHUP" \in pfd.revents THEN "none"
    ELSE IF pfd.revents \cap pfd.events = {} THEN "none"
    ELSE IF client.state = STATE_READING THEN "tls_read"
    ELSE IF client.state = STATE_WRITING THEN "tls_write"
    ELSE "none"

(***************************************************************************)
(* The accept block of main.  m holds pollfds, clients, throttle, fds and  *)
(* the exit reason; fd is the result of accept (-1 or a new descriptor),   *)
(* hs whether tls_accept_socket succeeds, fc whether both fcntl calls of   *)
(* newconn succeed.  slot is the slot the connection was placed in, or 0.  *)
(***************************************************************************)
free_slots(pfds) == {j \in Conns : pfds[j].fd = -1}

first_free(pfds) ==
    CHOOSE j \in free_slots(pfds) : \A k \in free_slots(pfds) : j <= k

\* the accept block without throttle = 1 after accept
accept_block_no_throttle(m, fd, hs, fc) ==
    LET a == [m EXCEPT !.fds = IF fd >= 0 THEN @ \cup {fd} ELSE @,
                       !.slot = 0]
    IN IF fd < 0 \/ free_slots(a.pollfds) = {} THEN a
       ELSE LET j == first_free(a.pollfds)
                b == [a EXCEPT !.throttle = 0]
            IN IF ~hs THEN [b EXCEPT !.fds = @ \ {fd}]
               ELSE IF ~fc THEN [b EXCEPT !.exit = "fcntl failed"]
               ELSE [b EXCEPT !.pollfds[j] = newconn(@, fd),
                              !.clients[j] = client_init(@, CTX_LIVE),
                              !.slot = j]

\* the accept block with throttle = 0 moved after the handshake
accept_block_late_clear(m, fd, hs, fc) ==
    LET a == [m EXCEPT !.throttle = 1,
                       !.fds = IF fd >= 0 THEN @ \cup {fd} ELSE @,
                       !.slot = 0]
    IN IF fd < 0 \/ free_slots(a.pollfds) = {} THEN a
       ELSE LET j == first_free(a.pollfds)
            IN IF ~hs THEN [a EXCEPT !.fds = @ \ {fd}]
               ELSE IF ~fc THEN [a EXCEPT !.exit = "fcntl failed"]
               ELSE [a EXCEPT !.throttle = 0,
                              !.pollfds[j] = newconn(@, fd),
                              !.clients[j] = client_init(@, CTX_LIVE),
                              !.slot = j]

accept_block(m, fd, hs, fc) ==
    LET a == [m EXCEPT !.throttle = 1,
                       !.fds = IF fd >= 0 THEN @ \cup {fd} ELSE @,
                       !.slot = 0]
    IN IF fd < 0 \/ free_slots(a.pollfds) = {} THEN a
       ELSE LET j == first_free(a.pollfds)
                b == [a EXCEPT !.throttle = 0]
            IN IF ~hs THEN [b EXCEPT !.fds = @ \ {fd}]
               ELSE IF ~fc THEN [b EXCEPT !.exit = "fcntl failed"]
               ELSE [b EXCEPT !.pollfds[j] = newconn(@, fd),
                              !.clients[j] = client_init(@, CTX_LIVE),
                              !.slot = j]

\* the descriptor accept returns: the lowest one that is not open
lowest_fd(open) ==
    LET range == ListenFd..(ListenFd + Cardinality(open))
    IN CHOOSE d \in range :
           d \notin open /\ \A e \in range : e \notin open => d <= e

(***************************************************************************)
(* poll(2).  A slot with a negative fd is ignored and gets revents 0.  An  *)
(* open connection may report any of its requested events, and POLLHUP    *)
(* and POLLERR whether requested or not (POLLNVAL is for a descriptor that *)
(* is not open; every fd in the table is open).  The listening socket     *)
(* reports readability only, when it is requested and a peer is waiting.   *)
(***************************************************************************)
poll_revents(pfd, j) ==
    IF pfd.fd < 0 THEN {{}}
    ELSE IF j = 0
         THEN IF npeers < budget.peers THEN SUBSET (pfd.events \cap {"POLLIN"})
              ELSE {{}}
    ELSE SUBSET (pfd.events \cup {"POLLHUP", "POLLERR"})

\* the revents poll may store in slots 0..k-1, as sequences of length k
RECURSIVE rev_seqs(_, _)
rev_seqs(pfds, k) ==
    IF k = 0 THEN {<<>>}
    ELSE {Append(q, r) : q \in rev_seqs(pfds, k - 1),
                         r \in poll_revents(pfds[k - 1], k - 1)}

\* the values tls_read may return on slot j
tls_read_results(j) ==
    {TLS_WANT_POLLIN, TLS_WANT_POLLOUT, TLS_ERROR, 0}
        \cup {n \in 1..BUFLEN : nread + n <= budget.bytes}

\* the bytes a tls_read that returns n stores on slot j
tls_read_data(j, n) == {[k \in 1..n |-> nread + k]}

\* the values tls_write may return on slot j when offered len bytes
tls_write_results(j, len) ==
    {TLS_WANT_POLLIN, TLS_WANT_POLLOUT, TLS_ERROR}
        \cup {n \in 0..len : Len(wr[j]) + n <= budget.bytes}

\* no buffer call made yet
hist_zero ==
    [calls |-> 0, op |-> "init", arg |-> 0, ret |-> 0,
     put |-> <<>>, got |-> <<>>, nput |-> 0, ncons |-> 0,
     fifo |-> <<>>, stored |-> {}, paired |-> TRUE,
     out |-> <<>>, pop |-> "init", pout |-> <<>>]

Init ==
    /\ pc = "poll"
    /\ i = MAX_CONNECTIONS
    /\ throttle = 0
    /\ pollfds = [j \in Slots |->
                    IF j = 0
                    THEN newconn([fd |-> -1, events |-> POLLIN_POLLHUP,
                                  revents |-> {}], ListenFd)
                    ELSE [fd |-> -1, events |-> POLLIN_POLLHUP,
                          revents |-> {}]]
    /\ clients = [j \in Conns |-> client_zero]
    /\ fds = {ListenFd}
    /\ exitcode = ""
    /\ rd = [j \in Conns |-> <<>>]
    /\ wr = [j \in Conns |-> <<>>]
    /\ ev = [op |-> "start", slot |-> 0, res |-> 0, n |-> 0, out |-> <<>>,
             closed |-> FALSE, rel |-> "none"]
    /\ nread = 0
    /\ npeers = 0
    /\ budget \in {[peers |-> 1, bytes |-> ManyBytes],
                   [peers |-> ManyPeers, bytes |-> FewBytes]}
    /\ admitted = 0
    /\ offer = [j \in Conns |-> <<>>]
    /\ hist = hist_zero

\* top of the loop: the listening slot's events follow the throttle, then
\* poll blocks until some slot has something to report
PollWait ==
    /\ pc = "poll"
    /\ LET pf == [pollfds EXCEPT ![0].events =
                      IF throttle = 0 THEN POLLIN_POLLHUP ELSE {}]
       IN \E q \in rev_seqs(pf, MAX_CONNECTIONS) :
            /\ \E j \in Slots : q[j + 1] # {}
            /\ Cardinality({j \in Conns : q[j + 1] # {}}) <= MaxReady
            /\ pollfds' = [j \in Slots |-> [pf[j] EXCEPT !.revents = q[j + 1]]]
            /\ pc' = IF q[1] # {} THEN "accept" ELSE "scan"
            /\ i' = IF q[1] # {} THEN i ELSE 1
    /\ ev' = [op |-> "poll", slot |-> 0, res |-> 0, n |-> 0, out |-> <<>>,
              closed |-> FALSE, rel |-> "none"]
    /\ admitted' = 0
    /\ UNCHANGED <<throttle, clients, fds, exitcode, rd, wr, nread, npeers,
                   budget, offer, hist>>

\* poll returns -1: err(1, "poll failed")
PollFail ==
    /\ pc = "poll"
    /\ pc' = "exited"
    /\ exitcode' = "poll failed"
    /\ pollfds' = [pollfds EXCEPT ![0].events =
                      IF throttle = 0 THEN POLLIN_POLLHUP ELSE {}]
    /\ ev' = [op |-> "poll", slot |-> 0, res |-> -1, n |-> 0, out |-> <<>>,
              closed |-> FALSE, rel |-> "none"]
    /\ UNCHANGED <<i, throttle, clients, fds, rd, wr, nread, npeers, budget,
                   admitted, offer, hist>>

\* the block under if (pollfds[0].revents)
Accept ==
    /\ pc = "accept"
    /\ \E ok \in BOOLEAN, hs \in BOOLEAN, fc \in BOOLEAN :
         LET fd == IF ok THEN lowest_fd(fds) ELSE -1
             m == [pollfds |-> pollfds, clients |-> clients,
                   throttle |-> throttle, fds |-> fds, exit |-> "", slot |-> 0]
             r == accept_block(m, fd, hs, fc)
         IN /\ pollfds' = r.pollfds
            /\ clients' = r.clients
            /\ throttle' = r.throttle
            /\ fds' = r.fds
            /\ exitcode' = r.exit
            /\ pc' = IF r.exit # "" THEN "exited" ELSE "scan"
            /\ i' = 1
            /\ npeers' = IF ok THEN npeers + 1 ELSE npeers
            /\ admitted' = r.slot
            /\ ev' = [op |-> "accept", slot |-> r.slot, res |-> fd, n |-> 0,
                      out |-> <<>>, closed |-> FALSE, rel |-> "none"]
    /\ UNCHANGED <<rd, wr, nread, budget, offer, hist>>

\* one call handle_client(&pollfds[i], &clients[i]) of the scan
HandleClient ==
    /\ pc = "scan"
    /\ i \in Conns
    /\ LET call == calls_tls(pollfds[i], clients[i])
           s == [pfd |-> pollfds[i], client |-> clients[i],
                 throttle |-> throttle, fds |-> fds, exit |-> "",
                 io |-> no_io, rel |-> "none"]
       IN \E oob \in (IF call = "tls_write"
                          /\ get_reads_outside(clients[i], BUFLEN)
                      THEN Byte \cup {FAULT} ELSE {0}) :
          \E tres \in (IF call = "tls_read" THEN tls_read_results(i)
                       ELSE IF call = "tls_write" /\ oob # FAULT
                       THEN tls_write_results(i,
                                client_get(clients[i], BUFLEN, oob).n)
                       ELSE {0}) :
          \E data \in (IF call = "tls_read" /\ tres > 0
                       THEN tls_read_data(i, tres) ELSE {<<>>}) :
            LET r == handle_client(s, tres, data, oob)
                closed == pollfds[i].fd >= 0 /\ r.pfd.fd < 0
            IN /\ pollfds' = [pollfds EXCEPT ![i] = r.pfd]
               /\ clients' = [clients EXCEPT ![i] = r.client]
               /\ throttle' = r.throttle
               /\ fds' = r.fds
               /\ exitcode' = r.exit
               /\ pc' = IF r.exit # "" THEN "exited"
                        ELSE IF i + 1 < MAX_CONNECTIONS THEN "scan"
                        ELSE "poll"
               /\ i' = IF r.exit # "" THEN i ELSE i + 1
               /\ rd' = [rd EXCEPT ![i] =
                           IF closed THEN <<>>
                           ELSE IF r.io.op = "tls_read" /\ r.io.res > 0
                           THEN @ \o r.io.out ELSE @]
               /\ wr' = [wr EXCEPT ![i] =
                           IF closed THEN <<>>
                           ELSE IF r.io.op = "tls_write" /\ r.io.res > 0
                           THEN @ \o SubSeq(r.io.out, 1, r.io.res) ELSE @]
               /\ nread' = IF r.io.op = "tls_read" /\ r.io.res > 0
                           THEN nread + r.io.res ELSE nread
               /\ offer' = [offer EXCEPT ![i] =
                              IF closed THEN <<>>
                              ELSE IF r.io.op = "tls_write"
                              THEN IF r.io.res \in {TLS_WANT_POLLIN,
                                                    TLS_WANT_POLLOUT}
                                   THEN r.io.out ELSE <<>>
                              ELSE @]
               /\ ev' = [op |-> r.io.op, slot |-> i, res |-> r.io.res,
                         n |-> Len(r.io.out), out |-> r.io.out,
                         closed |-> closed, rel |-> r.rel]
    /\ UNCHANGED <<npeers, budget, admitted, hist>>

Next == PollWait \/ PollFail \/ Accept \/ HandleClient

Spec == Init /\ [][Next]_vars

(***************************************************************************)
(* SpecBuf: one buffer, clients[1] after client_init, under any sequence   *)
(* of client_put / client_get / client_consume calls with any length       *)
(* arguments.  hist records the calls:                                     *)
(*   put, nput    the bytes client_put accepted, and how many              *)
(*   got          the bytes client_get returned in calls that were         *)
(*                followed by client_consume of the returned count         *)
(*   ncons        the sum of the values client_consume returned            *)
(*   fifo         the positions of buf that hold a byte client_put stored  *)
(*                and client_consume has not yet passed, oldest first      *)
(*   stored       the positions the last client_put wrote                  *)
(*   paired       every client_get so far was followed at once by          *)
(*                client_consume of the count it returned, and no          *)
(*                client_consume was called otherwise                      *)
(*   out          the bytes the call returned, when it was a client_get    *)
(*   pop, pout    op and out of the call before                            *)
(* The k-th byte offered to client_put has the value k.                    *)
(***************************************************************************)
InitBuf ==
    /\ pc = "buf"
    /\ i = 1
    /\ throttle = 0
    /\ pollfds = [j \in Slots |->
                    [fd |-> -1, events |-> POLLIN_POLLHUP, revents |-> {}]]
    /\ clients = [j \in Conns |->
                    IF j = 1 THEN client_init(client_zero, CTX_LIVE)
                    ELSE client_zero]
    /\ fds = {}
    /\ exitcode = ""
    /\ rd = [j \in Conns |-> <<>>]
    /\ wr = [j \in Conns |-> <<>>]
    /\ ev = [op |-> "start", slot |-> 0, res |-> 0, n |-> 0, out |-> <<>>,
             closed |-> FALSE, rel |-> "none"]
    /\ nread = 0
    /\ npeers = 0
    /\ budget = [peers |-> 0, bytes |-> 0]
    /\ admitted = 0
    /\ offer = [j \in Conns |-> <<>>]
    /\ hist = hist_zero

\* the positions a client_put that accepts n bytes writes, from writeptr on
put_positions(client, n) == {(client.writeptr + k) % BUFLEN : k \in 0..(n - 1)}

drop(seq, n) == SubSeq(seq, Min(n, Len(seq)) + 1, Len(seq))

\* the positions of the n bytes stored from writeptr on, in order
RECURSIVE put_order(_, _, _)
put_order(w, k, n) ==
    IF k >= n THEN <<>>
    ELSE <<(w + k) % BUFLEN>> \o put_order(w, k + 1, n)

buf_unchanged == UNCHANGED <<pc, i, throttle, pollfds, fds, exitcode, rd, wr,
                            ev, nread, npeers, budget, admitted, offer>>

BufPut ==
    /\ pc = "buf"
    /\ hist.calls < MaxCalls
    /\ \E len \in 0..BUFLEN :
         LET inbuf == [k \in 1..len |-> hist.nput + k]
             p == client_put(clients[1], inbuf)
         IN /\ clients' = [clients EXCEPT ![1] = p.client]
            /\ hist' = [hist EXCEPT
                  !.calls = @ + 1, !.op = "put", !.arg = len, !.ret = p.n,
                  !.out = <<>>, !.pop = hist.op, !.pout = hist.out,
                  !.put = @ \o SubSeq(inbuf, 1, p.n),
                  !.nput = @ + p.n,
                  !.stored = put_positions(clients[1], p.n),
                  !.fifo = @ \o put_order(clients[1].writeptr, 0, p.n)]
    /\ buf_unchanged

\* client_get alone: a peek that no client_consume of its count follows
BufGet ==
    /\ pc = "buf"
    /\ hist.calls < MaxCalls
    /\ \E outlen \in 0..BUFLEN :
       \E oob \in (IF get_reads_outside(clients[1], outlen)
                   THEN Byte ELSE {0}) :
         LET g == client_get(clients[1], outlen, oob)
         IN /\ clients' = [clients EXCEPT ![1] = g.client]
            /\ hist' = [hist EXCEPT
                  !.calls = @ + 1, !.op = "get", !.arg = outlen, !.ret = g.n,
                  !.out = g.out, !.pop = hist.op, !.pout = hist.out,
                  !.stored = {}, !.paired = FALSE]
    /\ buf_unchanged

\* client_consume alone, with any length
BufConsume ==
    /\ pc = "buf"
    /\ hist.calls < MaxCalls
    /\ \E len \in 0..(BUFLEN + 1) :
         LET c == client_consume(clients[1], len)
         IN /\ clients' = [clients EXCEPT ![1] = c.client]
            /\ hist' = [hist EXCEPT
                  !.calls = @ + 1, !.op = "consume", !.arg = len,
                  !.out = <<>>, !.pop = hist.op, !.pout = hist.out,
                  !.ret = c.n, !.ncons = @ + c.n,
                  !.fifo = drop(@, c.n),
                  !.stored = {}, !.paired = FALSE]
    /\ buf_unchanged

\* client_get followed by client_consume of the count it returned
BufGetConsume ==
    /\ pc = "buf"
    /\ hist.calls < MaxCalls
    /\ \E outlen \in 0..BUFLEN :
       \E oob \in (IF get_reads_outside(clients[1], outlen)
                   THEN Byte ELSE {0}) :
         LET g == client_get(clients[1], outlen, oob)
             c == client_consume(g.client, g.n)
         IN /\ clients' = [clients EXCEPT ![1] = c.client]
            /\ hist' = [hist EXCEPT
                  !.calls = @ + 1, !.op = "getconsume", !.arg = outlen,
                  !.out = g.out, !.pop = hist.op, !.pout = hist.out,
                  !.ret = g.n, !.ncons = @ + c.n,
                  !.got = @ \o g.out,
                  !.fifo = drop(@, c.n),
                  !.stored = {}]
    /\ buf_unchanged

\* a client_get whose first read, through a pointer outside buf, faults
BufGetFault ==
    /\ pc = "buf"
    /\ hist.calls < MaxCalls
    /\ \E outlen \in 1..BUFLEN : get_reads_outside(clients[1], outlen)
    /\ pc' = "exited"
    /\ exitcode' = "fault"
    /\ hist' = [hist EXCEPT !.calls = @ + 1, !.op = "fault", !.stored = {},
                            !.out = <<>>, !.pop = hist.op, !.pout = hist.out]
    /\ UNCHANGED <<i, throttle, pollfds, clients, fds, rd, wr, ev, nread,
                   npeers, budget, admitted, offer>>

NextBuf == BufPut \/ BufGet \/ BufConsume \/ BufGetConsume \/ BufGetFault

SpecBuf == InitBuf /\ [][NextBuf]_vars

(***************************************************************************)
(* Properties.                                                             *)
(***************************************************************************)
IsPrefix(a, b) == Len(a) <= Len(b) /\ SubSeq(b, 1, Len(a)) = a

Range(seq) == {seq[k] : k \in 1..Len(seq)}

live(j) == pollfds[j].fd >= 0

\* C1 (Spec): echo integrity.  On every live connection the bytes tls_write
\* has confirmed are a prefix of the bytes tls_read has delivered.
C1_EchoIntegrity == \A j \in Conns : live(j) => IsPrefix(wr[j], rd[j])

\* C2 (SpecBuf): round trip.  When every client_get is followed by
\* client_consume of the count it returned, the bytes client_get returned
\* are, in order, the bytes client_put accepted: always a prefix of them,
\* and all of them after a client_get of BUFLEN bytes.
C2_RoundTrip ==
    hist.paired =>
        /\ IsPrefix(hist.got, hist.put)
        /\ (hist.op = "getconsume" /\ hist.arg = BUFLEN) => hist.got = hist.put

\* C3 (SpecBuf): the values client_consume returned never sum to more than
\* the values client_put returned.
C3_ConsumedAtMostPut == hist.ncons <= hist.nput

\* C4 (SpecBuf): client_put never overwrites unconsumed data.  A client_put
\* stores only in positions that hold no unconsumed byte, and with
\* BUFLEN - 1 unconsumed bytes held it returns 0 and changes neither buf nor
\* writeptr.
C4_PutNeverOverwrites ==
    [][(hist'.op = "put" /\ hist'.calls = hist.calls + 1) =>
          /\ hist'.stored \cap Range(hist.fifo) = {}
          /\ Len(hist.fifo) = BUFLEN - 1 =>
                /\ hist'.ret = 0
                /\ clients'[1].buf = clients[1].buf
                /\ clients'[1].writeptr = clients[1].writeptr]_vars

\* C5 (Spec): a tls_read of N bytes, 1 <= N <= BUFLEN, does not close the
\* connection, and once tls_write has confirmed as many bytes as tls_read
\* delivered the connection is in STATE_READING with readptr = writeptr,
\* requesting POLLIN.
C5_EchoRoundEnds ==
    /\ (ev.op = "tls_read" /\ ev.res >= 1 /\ ev.res <= BUFLEN) => ~ev.closed
    /\ \A j \in Conns :
          (live(j) /\ rd[j] # <<>> /\ Len(wr[j]) = Len(rd[j])) =>
              /\ clients[j].state = STATE_READING
              /\ clients[j].readptr = clients[j].writeptr
              /\ pollfds[j].events = POLLIN_POLLHUP

\* C6 (Spec), as claimed: while every connection slot is occupied no accept
\* takes a connection off the listen queue.
C6_NoAcceptWhileFull ==
    [][free_slots(pollfds) = {} => npeers' = npeers]_vars

\* C6 (Spec), amended: while every connection slot is occupied and the
\* throttle is set no accept takes a connection off the listen queue; with
\* the throttle clear one accept may, and it sets the throttle and leaves
\* the table full.
C6_NoAcceptWhileThrottled ==
    [][free_slots(pollfds) = {} =>
          IF throttle = 1 THEN npeers' = npeers
          ELSE npeers' # npeers =>
                  throttle' = 1 /\ free_slots(pollfds') = {}]_vars

\* every slot occupied, the throttle set, the dispatcher about to poll and
\* a peer still to connect
C6_Witness ==
    /\ pc = "poll"
    /\ free_slots(pollfds) = {}
    /\ throttle = 1
    /\ npeers < budget.peers

\* C7 (Spec), as claimed: after an accept that returned a connection and
\* did not admit it (no free slot, or the handshake failed) the throttle is
\* set.
C7_ThrottleSetUnlessAdmitted ==
    (pc # "exited" /\ ev.op = "accept" /\ ev.res >= 0 /\ ev.slot = 0) =>
        throttle = 1

\* C7 (Spec), amended: an accept that returns a connection leaves the
\* throttle set when no slot is free and clear when a slot is free, whether
\* or not the handshake succeeds; a set throttle is cleared only by a step
\* in which closeconn runs; and while it is set the listening socket is
\* polled with no event requested.
C7_ThrottleFollowsFreeSlot ==
    [][/\ npeers' # npeers =>
            throttle' = (IF free_slots(pollfds) = {} THEN 1 ELSE 0)
       /\ (throttle = 1 /\ throttle' = 0) => ev'.closed
       /\ (pc = "poll" /\ throttle = 1) => pollfds'[0].events = {}]_vars

\* an accept just returned a connection and found no free slot
C7_Witness ==
    /\ ev.op = "accept"
    /\ ev.res >= 0
    /\ ev.slot = 0
    /\ free_slots(pollfds) = {}
    /\ throttle = 1

\* C8 (Spec): a hard error from tls_read or tls_write closes the connection
\* in the same call of handle_client: closeconn has run and the slot is free.
C8_HardErrorCloses ==
    (ev.op \in {"tls_read", "tls_write"} /\ ev.res = TLS_ERROR) =>
        ev.closed /\ pollfds[ev.slot].fd = -1

\* C9 (Spec): error isolation.  An error seen on one connection does not
\* stop the loop: the process exits only when a call of the dispatcher
\* itself fails (poll, or fcntl on a descriptor just accepted).
C9_ErrorIsolation ==
    pc = "exited" => exitcode \in {"poll failed", "fcntl failed"}

C11_ChannelOwnership ==
    [][pc = "scan" =>
          /\ ev'.rel \in {"none", CTX_LIVE}
          /\ ev'.rel = CTX_LIVE =>
                /\ clients'[i].ctx = CTX_FREED
                /\ pollfds'[i].fd = -1
          /\ (ev'.op \in {"tls_read", "tls_write"} \/ ev'.rel # "none") =>
                /\ pollfds[i].fd >= 0
                /\ clients[i].ctx = CTX_LIVE
          /\ (pollfds[i].fd = -1 \/ i = admitted) =>
                /\ ev'.op = "none"
                /\ ev'.rel = "none"
                /\ pollfds'[i] = pollfds[i]
                /\ clients'[i] = clients[i]
                /\ throttle' = throttle
          /\ \A j \in Conns :
                (pollfds'[j].fd >= 0) <=> (clients'[j].ctx = CTX_LIVE)]_vars

\* handle_client has just been called on the slot filled in this iteration
\* and did nothing, while another slot is free with its channel released
C11_Witness ==
    /\ admitted # 0
    /\ ev.slot = admitted
    /\ ev.op = "none"
    /\ pollfds[admitted].fd >= 0
    /\ \E k \in Conns :
          /\ k # admitted
          /\ pollfds[k].fd = -1
          /\ clients[k].ctx = CTX_FREED

\* C12 (SpecBuf): cursor range.  After any sequence of client_put,
\* client_get and client_consume calls readptr, writeptr and nextptr each
\* point inside buf, at an offset in 0..BUFLEN-1.
C12_CursorsInRange ==
    \A j \in Conns :
        /\ clients[j].readptr \in BufIdx
        /\ clients[j].writeptr \in BufIdx
        /\ clients[j].nextptr \in BufIdx

\* A connection in STATE_WRITING always has readptr # writeptr, so the
\* client_get of the STATE_WRITING branch never returns 0: the only way into
\* STATE_WRITING is a client_put that stored at least one byte, and
\* client_consume stops short of writeptr while a write is partial.
WritingHoldsBytes ==
    \A j \in Conns :
        (live(j) /\ clients[j].state = STATE_WRITING) =>
            clients[j].readptr # clients[j].writeptr

\* C14 (Spec): an accepted connection that is not admitted (no free slot,
\* or the handshake fails) is closed before the loop goes on: while the
\* process runs, every open descriptor other than the listening socket is
\* the fd of an occupied slot.
C14_NoDescriptorLeft ==
    pc # "exited" =>
        fds = {ListenFd} \cup {pollfds[j].fd : j \in {k \in Conns : live(k)}}

\* C15 (Spec): a tls_read in STATE_READING that returns N bytes,
\* 1 <= N <= BUFLEN, never ends in the "client buffer failed" close:
\* client_put stores all N bytes and the connection is left in
\* STATE_WRITING requesting POLLOUT | POLLHUP.
C15_ReadAlwaysFits ==
    (ev.op = "tls_read" /\ ev.res >= 1 /\ ev.res <= BUFLEN) =>
        /\ ~ev.closed
        /\ pollfds[ev.slot].fd >= 0
        /\ clients[ev.slot].state = STATE_WRITING
        /\ pollfds[ev.slot].events = POLLOUT_POLLHUP

\* the number of steps from position p forward, with wrap-around, to w
dist(p, w) == (w - p + BUFLEN) % BUFLEN

\* the n bytes of buf from position p on, with wrap-around
bytes_from(buf, p, n) == [k \in 1..n |-> buf[(p + k - 1) % BUFLEN]]

\* C16 (SpecBuf), as claimed: client_get copies from the peek cursor
\* (nextptr) on and advances it by the count copied, so that a second
\* client_get with no client_consume in between continues where the first
\* stopped, and it returns 0 when nextptr has reached writeptr.
C16_PeekFromPeekCursor ==
    [][(hist'.op = "get" /\ hist'.calls = hist.calls + 1) =>
          LET c == clients[1]
              n == Min(hist'.arg, dist(c.nextptr, c.writeptr))
          IN /\ hist'.ret = n
             /\ hist'.out = bytes_from(c.buf, c.nextptr, n)
             /\ clients'[1].nextptr = (c.nextptr + n) % BUFLEN]_vars

\* C16 (SpecBuf), amended: client_get copies from the read cursor (readptr)
\* on, whatever nextptr was, up to writeptr or outlen bytes, and leaves
\* nextptr after the last byte copied (untouched when it copies none); it
\* changes neither readptr, writeptr nor buf, so a second client_get with no
\* client_consume in between returns the same bytes again; it returns 0
\* exactly when readptr = writeptr or outlen = 0.  With readptr outside buf
\* the first byte is whatever the read outside the array yields and the
\* rest is buf[0..writeptr).
C16_PeekFromReadCursor ==
    [][(hist'.op = "get" /\ hist'.calls = hist.calls + 1) =>
          LET c == clients[1]
              r == c.readptr
              inside == r \in BufIdx
              d == IF inside THEN dist(r, c.writeptr) ELSE 1 + c.writeptr
              n == Min(hist'.arg, d)
          IN /\ hist'.ret = n
             /\ Len(hist'.out) = n
             /\ \A k \in 1..n :
                   \/ k = 1 /\ ~inside
                   \/ hist'.out[k] =
                         c.buf[IF inside THEN (r + k - 1) % BUFLEN ELSE k - 2]
             /\ clients'[1].nextptr =
                   (IF n = 0 THEN c.nextptr
                    ELSE IF inside THEN (r + n) % BUFLEN ELSE n - 1)
             /\ clients'[1].readptr = r
             /\ clients'[1].writeptr = c.writeptr
             /\ clients'[1].buf = c.buf
             /\ (hist'.ret = 0) <=> (r = c.writeptr \/ hist'.arg = 0)
             /\ (hist.op = "get" /\ hist.arg = hist'.arg /\ inside) =>
                   hist'.out = hist.out]_vars

\* two client_get calls in a row, with two bytes held and nextptr already
\* advanced by the first: the second returned the first one's bytes again
C16_Witness ==
    /\ hist.op = "get"
    /\ hist.pop = "get"
    /\ hist.ret >= 1
    /\ hist.out = hist.pout
    /\ Len(hist.fifo) >= 2
    /\ clients[1].readptr \in BufIdx
    /\ clients[1].nextptr # clients[1].readptr

\* C17 (Spec): a tls_write in STATE_WRITING that returns TLS_WANT_POLLIN or
\* TLS_WANT_POLLOUT consumes nothing: the connection stays open in
\* STATE_WRITING, readptr, writeptr and buf are unchanged, events becomes
\* POLLIN | POLLHUP or POLLOUT | POLLHUP respectively, and the next
\* tls_write on the connection is offered exactly the bytes this one was.
C17_RetryConsumesNothing ==
    [][ev'.op = "tls_write" =>
          LET j == ev'.slot
          IN /\ ev'.res \in {TLS_WANT_POLLIN, TLS_WANT_POLLOUT} =>
                   /\ ~ev'.closed
                   /\ clients[j].state = STATE_WRITING
                   /\ clients'[j].state = STATE_WRITING
                   /\ clients'[j].readptr = clients[j].readptr
                   /\ clients'[j].writeptr = clients[j].writeptr
                   /\ clients'[j].buf = clients[j].buf
                   /\ pollfds'[j].events =
                         (IF ev'.res = TLS_WANT_POLLIN THEN POLLIN_POLLHUP
                          ELSE POLLOUT_POLLHUP)
             /\ offer[j] # <<>> => ev'.out = offer[j]]_vars

C19_ReadingMeansEmpty ==
    \A j \in Conns :
        (live(j) /\ clients[j].state = STATE_READING) =>
            /\ clients[j].readptr = clients[j].writeptr
            /\ clients[j].nextptr = clients[j].readptr

\* C20 (Spec): every time main enters poll with the throttle set, so that
\* the listening socket is not polled, no connection slot is free.
C20_ThrottledOnlyWhenFull ==
    (pc = "poll" /\ throttle = 1) => free_slots(pollfds) = {}
=============================================================================
